---- MODULE Spec2Model ----
(***************************************************************************)
(* WeFly booking backend: server-side pricing, booking creation against    *)
(* the payment provider, and the payment webhook, as implemented by the    *)
(* revisions kept in this repository.  The variable rev says which         *)
(* revision is deployed; each revision has its own operators and actions.  *)
(***************************************************************************)
EXTENDS Integers, Sequences, FiniteSets, TLC

(* ---------------- bounds of the model ---------------- *)
MaxPax == 2
MaxAddons == 2
MaxCartAddons == 1
MaxSessions == 2
MaxDeliveries == 3

(* ---------------- revisions ---------------- *)
RevServerA == "server.js:1"
RevServerB == "server.js:246"
RevPart000 == "part_000:169"
RevPart001 == "part_001"
RevPart002 == "part_002"
RevPart003 == "part_003"
RevPart004 == "part_004"
RevPart007 == "part_007"

(* ---------------- request values ---------------- *)
\* JSON numbers a client can put in adults / children.  The code coerces
\* them with Number(x) || 0, which maps an integer to itself and a missing
\* field to 0.  The two far values make a non-positive total with a positive
\* passenger count possible (-8 adults, 9 children).
CountVals == (-1..MaxPax) \cup {-8, 9}

Photoshoot == "Photoshoot"
VideoDrone == "Video con Drone"
VideoDron == "Video con Dron"
Desayuno == "Desayuno en La Cueva"
UnknownAddon == "Globo VIP"
NoName == ""

AddonNames == {Photoshoot, VideoDrone, VideoDron, Desayuno, UnknownAddon, NoName}
ClientPrices == {600, 1200}
AddonVals == [name : AddonNames, price : ClientPrices]

SeqsUpTo(S, n) == UNION {[1..k -> S] : k \in 0..n}

Bookings == [adults : CountVals, children : CountVals, addons : SeqsUpTo(AddonVals, MaxAddons)]

Max(a, b) == IF a >= b THEN a ELSE b

(* ---------------- prices (server side) ---------------- *)
\* a price table whose adult fare is missing
PRICES_noAdultFare == [adult |-> 0, child |-> 2200]

PRICES == [adult |-> 2500, child |-> 2200]

PRICES_ADDONS == (Photoshoot :> 1200) @@ (VideoDrone :> 1200) @@ (VideoDron :> 1200) @@ (Desayuno :> 600)

\* adults * PRICES.adult + children * PRICES.child
BaseAmount_swapped(adults, children) == adults * PRICES.child + children * PRICES.adult

BaseAmount(adults, children) == adults * PRICES.adult + children * PRICES.child

\* addonsTotal += ... over the entries in order
RECURSIVE SumSeq(_)
SumSeq(charges) ==
  IF charges = <<>> THEN 0
  ELSE Head(charges) + SumSeq(Tail(charges))

\* server.js:54-62: name = String(a.name || a).trim(); an empty name falls
\* back to the object itself, which is not the per-passenger name.
AddonCharge_serverA(a, pax) ==
  IF a.name = Desayuno THEN a.price * pax ELSE a.price

\* part_002:55-64: an entry with an empty name is skipped.
AddonCharge_part002(a, pax) ==
  IF a.name = NoName THEN 0
  ELSE IF a.name = Desayuno THEN a.price * pax ELSE a.price

\* part_000:360-363
AddonCharge_part000(a, pax) ==
  IF a.name = Desayuno THEN a.price * pax ELSE a.price

Result(threw, base, addonsTotal, total) ==
  [threw |-> threw, base |-> base, addonsTotal |-> addonsTotal, total |-> total]

computeTotalMXN_serverA(booking) ==
  LET pax == booking.adults + booking.children
      base == BaseAmount(booking.adults, booking.children)
      addonsTotal == SumSeq([i \in 1..Len(booking.addons) |-> AddonCharge_serverA(booking.addons[i], pax)])
  IN Result(FALSE, base, addonsTotal, Max(0, base + addonsTotal))

computeTotalMXN_part002(booking) ==
  LET pax == booking.adults + booking.children
      base == BaseAmount(booking.adults, booking.children)
      addonsTotal == SumSeq([i \in 1..Len(booking.addons) |-> AddonCharge_part002(booking.addons[i], pax)])
  IN Result(FALSE, base, addonsTotal, Max(0, base + addonsTotal))

computeTotalMXN_part000(booking) ==
  LET pax == booking.adults + booking.children
      base == BaseAmount(booking.adults, booking.children)
      addonsTotal == SumSeq([i \in 1..Len(booking.addons) |-> AddonCharge_part000(booking.addons[i], pax)])
  IN Result(FALSE, base, addonsTotal, base + addonsTotal)

HasName(addons, n) == \E i \in 1..Len(addons) : addons[i].name = n

\* part_007:89-97: each known add-on is charged once if its name occurs.
AddonsTotal_part007(addons, paxCount) ==
    (IF HasName(addons, Photoshoot) THEN PRICES_ADDONS[Photoshoot] ELSE 0)
  + (IF HasName(addons, VideoDrone) \/ HasName(addons, VideoDron) THEN PRICES_ADDONS[VideoDrone] ELSE 0)
  + (IF HasName(addons, Desayuno) THEN PRICES_ADDONS[Desayuno] * paxCount ELSE 0)

\* computeServerTotalMXN without its `total <= 0` check
computeServerTotalMXN_unchecked(booking) ==
  LET adults == booking.adults
      children == booking.children
      base == BaseAmount(adults, children)
      addonsTotal == AddonsTotal_part007(booking.addons, adults + children)
  IN IF adults + children <= 0 THEN Result(TRUE, 0, 0, 0)
     ELSE Result(FALSE, base, addonsTotal, base + addonsTotal)

computeServerTotalMXN(booking) ==
  LET adults == booking.adults
      children == booking.children
      base == BaseAmount(adults, children)
      addonsTotal == AddonsTotal_part007(booking.addons, adults + children)
      total == base + addonsTotal
  IN IF adults + children <= 0 THEN Result(TRUE, 0, 0, 0)
     ELSE IF total <= 0 THEN Result(TRUE, base, addonsTotal, total)
     ELSE Result(FALSE, base, addonsTotal, total)

(* ---------------- contact e-mail ---------------- *)
\* An e-mail is a sequence of characters; <<>> is the absent / empty field.
EmailVals == {<<>>, <<"a", "@", "b", ".", "c">>, <<"a", "@", "b">>}

EmailChar(c) == c \notin {" ", "@"}

\* /^[^\s@]+@[^\s@]+\.[^\s@]+$/
EmailRegex(e) ==
  \E i \in 2..Len(e) : \E j \in (i+2)..(Len(e)-1) :
     /\ e[i] = "@" /\ e[j] = "."
     /\ \A k \in 1..Len(e) : (k # i /\ k # j) => EmailChar(e[k])

\* part_007:76-77 (the trim is the identity on the e-mails drawn here)
isValidEmail(email) == EmailRegex(email)

(* ---------------- confirmation codes and booking ids ---------------- *)
\* Strings are sequences of one-character strings.
DigitChars == <<"0", "1", "2", "3", "4", "5", "6", "7", "8", "9">>

\* String(n) for an integer n >= 0
RECURSIVE NumToString(_)
NumToString(n) ==
  IF n < 10 THEN <<DigitChars[n + 1]>>
  ELSE NumToString(n \div 10) \o <<DigitChars[(n % 10) + 1]>>

NaNString == <<"N", "a", "N">>

\* s.padStart(2, '0')
padStart2(s) == IF Len(s) >= 2 THEN s ELSE [i \in 1..(2 - Len(s)) |-> "0"] \o s

\* A Date object: its local-time fields (month counted from 0, as getMonth
\* returns it), or an Invalid Date, all of whose getters return NaN.
InvalidDate == [valid |-> FALSE, year |-> 0, month |-> 0, date |-> 0]

\* new Date(): the day of the request
Today == [valid |-> TRUE, year |-> 2026, month |-> 10, date |-> 2]

IsDigit(c) == \E k \in 1..10 : DigitChars[k] = c

DigitValue(c) == (CHOOSE k \in 1..10 : DigitChars[k] = c) - 1

\* the value of a string of digits
RECURSIVE ToNumber(_)
ToNumber(s) ==
  IF s = <<>> THEN 0
  ELSE 10 * ToNumber(SubSeq(s, 1, Len(s) - 1)) + DigitValue(s[Len(s)])

\* new Date(str) for the strings the model sends: a date-only ISO string
\* YYYY-MM-DD with a month in 1..12 and a day in 1..31 parses (the server
\* clock is taken to be UTC, so the local fields are the fields written);
\* anything else here is an Invalid Date.
NewDate(str) ==
  IF /\ Len(str) = 10 /\ str[5] = "-" /\ str[8] = "-"
     /\ \A k \in {1, 2, 3, 4, 6, 7, 9, 10} : IsDigit(str[k])
     /\ ToNumber(SubSeq(str, 6, 7)) \in 1..12
     /\ ToNumber(SubSeq(str, 9, 10)) \in 1..31
  THEN [valid |-> TRUE, year |-> ToNumber(SubSeq(str, 1, 4)),
        month |-> ToNumber(SubSeq(str, 6, 7)) - 1, date |-> ToNumber(SubSeq(str, 9, 10))]
  ELSE InvalidDate

\* the `date` field of a request: absent, a flight date, free text
NoDate == <<>>

DateVals == {NoDate,
             <<"2", "0", "2", "7", "-", "0", "3", "-", "0", "7">>,
             <<"m", "a", "n", "a", "n", "a">>}

\* customAlphabet('ABCDEFGHJKMNPQRSTUVWXYZ23456789', 6)
AlphabetString ==
  <<"A", "B", "C", "D", "E", "F", "G", "H", "J", "K", "M", "N", "P", "Q", "R", "S",
    "T", "U", "V", "W", "X", "Y", "Z", "2", "3", "4", "5", "6", "7", "8", "9">>

SuffixLen == 6

\* what the random source yields for one code: SuffixLen positions in the alphabet
RandomDraws == {<<1, 2, 3, 24, 25, 26>>, <<23, 31, 23, 31, 23, 31>>}

nano(rnd) == [i \in 1..SuffixLen |-> AlphabetString[rnd[i]]]

\* `WFT-${y}${m}${d}-${nano()}`
buildConfirmationCode(date, suffix) ==
  LET y == IF date.valid THEN NumToString(date.year) ELSE NaNString
      m == padStart2(IF date.valid THEN NumToString(date.month + 1) ELSE NaNString)
      d == padStart2(IF date.valid THEN NumToString(date.date) ELSE NaNString)
  IN <<"W", "F", "T", "-">> \o y \o m \o d \o <<"-">> \o suffix

\* `BKG_${Date.now()}`
BookingId(now) == <<"BKG_", now>>

\* session.metadata?.confirmation_code of a session without that key
NoCode == <<>>

(* ---------------- state ---------------- *)
VARIABLES
  rev,       \* the deployed revision
  booking,   \* passenger counts and add-ons of the request body
  calc,      \* result of the pricing function applied to booking
  sessions,  \* payment sessions / intents created at the provider
  resp,      \* the last HTTP response of a creation endpoint
  env,       \* process.env: which settings are configured
  event,     \* the event the payment provider delivers (at least once)
  slots,     \* webhook requests being handled: position, response
  mails,     \* e-mails accepted by the mail provider, per recipient
  delivered, \* number of webhook requests received so far
  overlap,   \* a webhook request arrived while another was awaiting a send
  acked,     \* verified deliveries answered 2xx
  checkout,  \* part_002: the creation request in progress, step by step
  lookup,    \* the last request to a lookup endpoint and its answer
  cors       \* the last Origin header checked by the cors middleware

createVars == <<sessions, resp>>

hookVars == <<env, event, slots, mails, delivered, overlap, acked>>

routeVars == <<checkout, lookup, cors>>

vars == <<rev, booking, calc, sessions, resp, env, event, slots, mails, delivered, overlap, acked,
          checkout, lookup, cors>>

NoCalc == [done |-> FALSE, threw |-> FALSE, base |-> 0, addonsTotal |-> 0, total |-> 0]

Done(r) == [done |-> TRUE, threw |-> r.threw, base |-> r.base, addonsTotal |-> r.addonsTotal, total |-> r.total]

NoResp == [status |-> 0, body |-> "none"]

MaxInFlight == 2

Handlers == 1..MaxInFlight

NoEnv == [secret |-> FALSE, apiKey |-> FALSE, template |-> FALSE, staffTemplate |-> FALSE]

NoEvent == [type |-> "none", email |-> FALSE, meta |-> FALSE, id |-> 0, code |-> NoCode]

IdleSlot == [pc |-> "idle", sig |-> FALSE, status |-> 0, reached |-> FALSE, sent |-> 0]

NoMails == [customer |-> 0, staff |-> 0, codes |-> {}]

NoCheckout ==
  [enableOxxo |-> FALSE, pc |-> "idle", email |-> <<>>, calls |-> <<>>, errors |-> <<>>, responses |-> <<>>]

NoLookup == [endpoint |-> "none", provider |-> "none", piStatus |-> "none", status |-> 0, paid |-> FALSE]

NoCors ==
  [origin |-> [scheme |-> "unset", host |-> <<>>, link |-> FALSE], allowed |-> FALSE, rejected |-> FALSE]

\* The step-wise checkout, the lookups and the origin check at rest.
RouteIdle ==
  /\ checkout = NoCheckout
  /\ lookup = NoLookup
  /\ cors = NoCors

\* The webhook side at rest (used by the specifications that do not run it).
HookIdle ==
  /\ env = NoEnv
  /\ event = NoEvent
  /\ slots = [h \in Handlers |-> IdleSlot]
  /\ mails = NoMails
  /\ delivered = 0
  /\ overlap = FALSE
  /\ acked = 0

(* ---------------- pricing functions applied to drawn inputs ------------ *)
PricingRevs == {RevServerA, RevPart000, RevPart002, RevPart007}

InitPricing ==
  /\ rev \in PricingRevs
  /\ booking \in Bookings
  /\ calc = NoCalc
  /\ sessions = <<>>
  /\ resp = NoResp
  /\ HookIdle
  /\ RouteIdle

Compute_serverA ==
  /\ rev = RevServerA /\ ~calc.done
  /\ calc' = Done(computeTotalMXN_serverA(booking))
  /\ UNCHANGED <<routeVars, rev, booking, sessions, resp, hookVars>>

Compute_part002 ==
  /\ rev = RevPart002 /\ ~calc.done
  /\ calc' = Done(computeTotalMXN_part002(booking))
  /\ UNCHANGED <<routeVars, rev, booking, sessions, resp, hookVars>>

Compute_part000 ==
  /\ rev = RevPart000 /\ ~calc.done
  /\ calc' = Done(computeTotalMXN_part000(booking))
  /\ UNCHANGED <<routeVars, rev, booking, sessions, resp, hookVars>>

Compute_part007 ==
  /\ rev = RevPart007 /\ ~calc.done
  /\ calc' = Done(computeServerTotalMXN(booking))
  /\ UNCHANGED <<routeVars, rev, booking, sessions, resp, hookVars>>

NextPricing == Compute_serverA \/ Compute_part002 \/ Compute_part000 \/ Compute_part007

SpecPricing == InitPricing /\ [][NextPricing]_vars

(* ---------------- booking creation ---------------- *)
\* What the client puts in the `total` field; 0 stands for a missing,
\* zero or non-numeric total (all rejected alike where the field is read).
ClientTotals == {0, 1, 5000}

CartAddonVals == {a \in AddonVals : a.name \in {Photoshoot, Desayuno, UnknownAddon}}

\* 2 adults, 1 child, Photoshoot and Desayuno en La Cueva at their list prices
ExampleCart ==
  [adults |-> 2, children |-> 1,
   addons |-> <<[name |-> Photoshoot, price |-> 1200], [name |-> Desayuno, price |-> 600]>>]

Carts ==
  [adults : CountVals, children : CountVals, addons : SeqsUpTo(CartAddonVals, MaxCartAddons)]
     \cup {ExampleCart}

CreateRevs == {RevServerA, RevServerB, RevPart000, RevPart007}

Request(total, email) ==
  [adults |-> booking.adults, children |-> booking.children, addons |-> booking.addons,
   total |-> total, email |-> email]

Reply(status, body) == [status |-> status, body |-> body]

\* the amount left in MXN, not converted to centavos
unit_amount_pesos(totalMXN) == totalMXN

\* unit_amount: amountMXN * 100 (server.js:124); Math.round(totalMXN * 100)
\* in the other revisions, which rounds nothing on an integer total.
unit_amount(totalMXN) == totalMXN * 100

\* stripe.checkout.sessions.create / stripe.paymentIntents.create succeeded
Created(total, email, amount) == Append(sessions, [req |-> Request(total, email), amount |-> amount])

Init ==
  /\ rev \in CreateRevs
  /\ booking \in Carts
  /\ calc = NoCalc
  /\ sessions = <<>>
  /\ resp = NoResp
  /\ HookIdle
  /\ RouteIdle

\* server.js:73-185
CreateCheckoutSession_serverA(total, email, stripeOk) ==
  /\ rev = RevServerA /\ Len(sessions) < MaxSessions
  /\ LET amountMXN == computeTotalMXN_serverA(booking).total
         pax == booking.adults + booking.children
     IN IF amountMXN <= 0 THEN resp' = Reply(400, "Total invalido") /\ UNCHANGED sessions
        ELSE IF pax <= 0 THEN resp' = Reply(400, "Sin pasajeros") /\ UNCHANGED sessions
        ELSE IF email # <<>> /\ ~EmailRegex(email) THEN resp' = Reply(400, "Email invalido") /\ UNCHANGED sessions
        ELSE IF ~stripeOk THEN resp' = Reply(500, "No se pudo crear") /\ UNCHANGED sessions
        ELSE resp' = Reply(200, "session") /\ sessions' = Created(total, email, unit_amount(amountMXN))
  /\ UNCHANGED <<routeVars, rev, booking, calc, hookVars>>

\* server.js:325-421: the amount is Math.round(total * 100), total read
\* from the request body.
CreateCheckoutSession_serverB(total, email, stripeOk) ==
  /\ rev = RevServerB /\ Len(sessions) < MaxSessions
  /\ LET pax == booking.adults + booking.children
     IN IF total <= 0 THEN resp' = Reply(400, "Total invalido") /\ UNCHANGED sessions
        ELSE IF pax <= 0 THEN resp' = Reply(400, "Sin pasajeros") /\ UNCHANGED sessions
        ELSE IF email # <<>> /\ ~EmailRegex(email) THEN resp' = Reply(400, "Email invalido") /\ UNCHANGED sessions
        ELSE IF ~stripeOk THEN resp' = Reply(500, "No se pudo crear") /\ UNCHANGED sessions
        ELSE resp' = Reply(200, "session") /\ sessions' = Created(total, email, unit_amount(total))
  /\ UNCHANGED <<routeVars, rev, booking, calc, hookVars>>

\* part_000:389-461: no e-mail check; a provider failure is answered 400.
CreateCheckoutSession_part000(total, email, stripeOk) ==
  /\ rev = RevPart000 /\ Len(sessions) < MaxSessions
  /\ LET totalMXN == computeTotalMXN_part000(booking).total
     IN IF booking.adults + booking.children <= 0 THEN resp' = Reply(400, "Sin pasajeros") /\ UNCHANGED sessions
        ELSE IF ~(totalMXN > 0) THEN resp' = Reply(400, "Total invalido") /\ UNCHANGED sessions
        ELSE IF ~stripeOk THEN resp' = Reply(400, "No se pudo crear") /\ UNCHANGED sessions
        ELSE resp' = Reply(200, "session") /\ sessions' = Created(total, email, unit_amount(totalMXN))
  /\ UNCHANGED <<routeVars, rev, booking, calc, hookVars>>

\* part_007:118-167: computeServerTotalMXN throws inside the try block, so
\* its failure is answered by the catch clause with 500.
CreatePaymentIntent_part007(total, email, stripeOk) ==
  /\ rev = RevPart007 /\ Len(sessions) < MaxSessions
  /\ LET pax == booking.adults + booking.children
         r == computeServerTotalMXN(booking)
     IN IF pax <= 0 THEN resp' = Reply(400, "Sin pasajeros") /\ UNCHANGED sessions
        ELSE IF email # <<>> /\ ~isValidEmail(email) THEN resp' = Reply(400, "Email invalido") /\ UNCHANGED sessions
        ELSE IF r.threw THEN resp' = Reply(500, "No se pudo iniciar") /\ UNCHANGED sessions
        ELSE IF ~stripeOk THEN resp' = Reply(500, "No se pudo iniciar") /\ UNCHANGED sessions
        ELSE resp' = Reply(200, "clientSecret") /\ sessions' = Created(total, email, unit_amount(r.total))
  /\ UNCHANGED <<routeVars, rev, booking, calc, hookVars>>

Next ==
  \E total \in ClientTotals, email \in EmailVals, stripeOk \in BOOLEAN :
     \/ CreateCheckoutSession_serverA(total, email, stripeOk)
     \/ CreateCheckoutSession_serverB(total, email, stripeOk)
     \/ CreateCheckoutSession_part000(total, email, stripeOk)
     \/ CreatePaymentIntent_part007(total, email, stripeOk)

Spec == Init /\ [][Next]_vars

(* ---------------- payment webhook ---------------- *)
EventTypes == {"checkout.session.completed", "checkout.session.async_payment_succeeded",
               "payment_intent.succeeded", "payment_intent.payment_failed",
               "charge.succeeded", "customer.created"}

\* a confirmation code issued by an earlier booking creation
IssuedCode == buildConfirmationCode(Today, nano(<<1, 2, 3, 24, 25, 26>>))

\* email: the session carries a customer e-mail (customer_details.email or
\* metadata.customer_email); meta: its metadata carries the bookingId and
\* confirmation_code written by booking creation; id: the position of the
\* session among those created in this run (0: created before it); code:
\* metadata.confirmation_code.
Events ==
  {[type |-> t, email |-> e, meta |-> m, id |-> 0, code |-> IF m THEN IssuedCode ELSE NoCode] :
     t \in EventTypes, e \in BOOLEAN, m \in BOOLEAN}

Envs == [secret : BOOLEAN, apiKey : BOOLEAN, template : BOOLEAN, staffTemplate : BOOLEAN]

HookRevs == {RevServerA, RevPart000, RevPart004, RevPart007}

InitWebhook ==
  /\ rev \in HookRevs
  /\ booking = [adults |-> 0, children |-> 0, addons |-> <<>>]
  /\ calc = NoCalc
  /\ sessions = <<>>
  /\ resp = NoResp
  /\ env \in Envs
  /\ event \in Events
  /\ slots = [h \in Handlers |-> IdleSlot]
  /\ mails = NoMails
  /\ delivered = 0
  /\ overlap = FALSE
  /\ acked = 0
  /\ RouteIdle

Free(h) == slots[h].pc \in {"idle", "done"}

Awaiting(h) == slots[h].pc \in {"customer", "staff"}

\* stripe.webhooks.constructEvent(req.body, sig, secret) returns the event
\* only for a genuine signature checked against a configured secret.
constructEvent_unchecked(sigValid) == env.secret

constructEvent(sigValid) == env.secret /\ sigValid

Answer(h, sigValid, status, reached, sent) ==
  [slots EXCEPT ![h] = [pc |-> "done", sig |-> sigValid, status |-> status, reached |-> reached, sent |-> sent]]

Goto(h, sigValid, pc, sent) ==
  [slots EXCEPT ![h] = [pc |-> pc, sig |-> sigValid, status |-> 0, reached |-> TRUE, sent |-> sent]]

Arrive(h) ==
  /\ Free(h)
  /\ delivered < MaxDeliveries
  /\ delivered' = delivered + 1

\* sendBookingEmail (part_000:368-377) reaches sgMail.send only with an API
\* key, a template and a recipient.
CustomerSend == env.template /\ event.email /\ env.apiKey

\* staffInbox always has its fallback address; staffTpl falls back to the
\* customer template.
StaffSend == (env.staffTemplate \/ env.template) /\ env.apiKey

\* the key read under a name booking creation does not write
dynamicData_camelCase(e) == [confirmation_code |-> NoCode]

\* part_000:249-250, 285-288, 315-318: the template data of both e-mails
\* take confirmation_code from session.metadata.
dynamicData(e) == [confirmation_code |-> e.code]

\* part_000:303-330, from the staff copy on.
ToStaff(h, sigValid, sent) ==
  IF StaffSend
  THEN slots' = Goto(h, sigValid, "staff", sent) /\ UNCHANGED acked
  ELSE slots' = Answer(h, sigValid, 200, TRUE, sent) /\ acked' = acked + 1

\* the handler with the test of event.type left out
StripeWebhook_part000_anyType(h, sigValid) ==
  /\ rev = RevPart000
  /\ Arrive(h)
  /\ overlap' = (overlap \/ (constructEvent(sigValid) /\ \E g \in Handlers : Awaiting(g)))
  /\ IF ~constructEvent(sigValid)
     THEN slots' = Answer(h, sigValid, 400, FALSE, 0) /\ UNCHANGED acked
     ELSE IF CustomerSend
          THEN slots' = Goto(h, sigValid, "customer", 0) /\ UNCHANGED acked
          ELSE ToStaff(h, sigValid, 0)
  /\ UNCHANGED <<routeVars, rev, booking, calc, createVars, env, event, mails>>

\* part_000:227-336, up to the first await.
StripeWebhook_part000(h, sigValid) ==
  /\ rev = RevPart000
  /\ Arrive(h)
  /\ overlap' = (overlap \/ (constructEvent(sigValid) /\ \E g \in Handlers : Awaiting(g)))
  /\ IF ~constructEvent(sigValid)
     THEN slots' = Answer(h, sigValid, 400, FALSE, 0) /\ UNCHANGED acked
     ELSE IF event.type = "checkout.session.completed"
     THEN IF CustomerSend
          THEN slots' = Goto(h, sigValid, "customer", 0) /\ UNCHANGED acked
          ELSE ToStaff(h, sigValid, 0)
     ELSE slots' = Answer(h, sigValid, 200, TRUE, 0) /\ acked' = acked + 1
  /\ UNCHANGED <<routeVars, rev, booking, calc, createVars, env, event, mails>>

\* part_000:281-301: the customer send settles; a rejection is caught at
\* part_000:331-334 and answered 500.
CustomerSendSettles(h, ok) ==
  /\ rev = RevPart000
  /\ slots[h].pc = "customer"
  /\ IF ok
     THEN /\ mails' = [mails EXCEPT !.customer = @ + 1,
                                    !.codes = @ \cup {dynamicData(event).confirmation_code}]
          /\ ToStaff(h, slots[h].sig, slots[h].sent + 1)
     ELSE /\ slots' = Answer(h, slots[h].sig, 500, TRUE, slots[h].sent)
          /\ UNCHANGED <<mails, acked>>
  /\ UNCHANGED <<routeVars, rev, booking, calc, createVars, env, event, delivered, overlap>>

\* part_000:310-334: the staff send settles.
StaffSendSettles(h, ok) ==
  /\ rev = RevPart000
  /\ slots[h].pc = "staff"
  /\ IF ok
     THEN /\ mails' = [mails EXCEPT !.staff = @ + 1,
                                    !.codes = @ \cup {dynamicData(event).confirmation_code}]
          /\ slots' = Answer(h, slots[h].sig, 200, TRUE, slots[h].sent + 1)
          /\ acked' = acked + 1
     ELSE /\ slots' = Answer(h, slots[h].sig, 500, TRUE, slots[h].sent)
          /\ UNCHANGED <<mails, acked>>
  /\ UNCHANGED <<routeVars, rev, booking, calc, createVars, env, event, delivered, overlap>>

\* server.js:188-218: without a secret the request is answered 200 unverified.
Webhook_serverA(h, sigValid) ==
  /\ rev = RevServerA
  /\ Arrive(h)
  /\ IF ~env.secret
     THEN slots' = Answer(h, sigValid, 200, FALSE, 0) /\ UNCHANGED acked
     ELSE IF ~constructEvent(sigValid)
     THEN slots' = Answer(h, sigValid, 400, FALSE, 0) /\ UNCHANGED acked
     ELSE slots' = Answer(h, sigValid, 200, TRUE, 0) /\ acked' = acked + 1
  /\ UNCHANGED <<routeVars, rev, booking, calc, createVars, env, event, mails, overlap>>

\* part_004:174-230: without a secret the request is answered 500.
Webhook_part004(h, sigValid) ==
  /\ rev = RevPart004
  /\ Arrive(h)
  /\ IF ~env.secret
     THEN slots' = Answer(h, sigValid, 500, FALSE, 0) /\ UNCHANGED acked
     ELSE IF ~constructEvent(sigValid)
     THEN slots' = Answer(h, sigValid, 400, FALSE, 0) /\ UNCHANGED acked
     ELSE slots' = Answer(h, sigValid, 200, TRUE, 0) /\ acked' = acked + 1
  /\ UNCHANGED <<routeVars, rev, booking, calc, createVars, env, event, mails, overlap>>

\* part_007:170-229: without a secret the request is answered 400; the
\* event handling only logs, inside a try block of its own.
Webhook_part007(h, sigValid) ==
  /\ rev = RevPart007
  /\ Arrive(h)
  /\ IF ~env.secret
     THEN slots' = Answer(h, sigValid, 400, FALSE, 0) /\ UNCHANGED acked
     ELSE IF ~constructEvent(sigValid)
     THEN slots' = Answer(h, sigValid, 400, FALSE, 0) /\ UNCHANGED acked
     ELSE slots' = Answer(h, sigValid, 200, TRUE, 0) /\ acked' = acked + 1
  /\ UNCHANGED <<routeVars, rev, booking, calc, createVars, env, event, mails, overlap>>

NextWebhook ==
  \E h \in Handlers, b \in BOOLEAN :
     \/ StripeWebhook_part000(h, b)
     \/ CustomerSendSettles(h, b)
     \/ StaffSendSettles(h, b)
     \/ Webhook_serverA(h, b)
     \/ Webhook_part004(h, b)
     \/ Webhook_part007(h, b)

SpecWebhook == InitWebhook /\ [][NextWebhook]_vars

(* ---------------- bookings with their identifiers (part_000) ---------------- *)
BookingCarts ==
  {[adults |-> 1, children |-> 0, addons |-> <<>>], [adults |-> 0, children |-> 0, addons |-> <<>>]}

\* the contact e-mail as the booking form sends it
BookingEmails == {e \in EmailVals : EmailRegex(e)}

InitBooking ==
  /\ rev = RevPart000
  /\ booking \in BookingCarts
  /\ calc = NoCalc
  /\ sessions = <<>>
  /\ resp = NoResp
  /\ env = [secret |-> TRUE, apiKey |-> TRUE, template |-> TRUE, staffTemplate |-> FALSE]
  /\ event = NoEvent
  /\ slots = [h \in Handlers |-> IdleSlot]
  /\ mails = NoMails
  /\ delivered = 0
  /\ overlap = FALSE
  /\ acked = 0
  /\ RouteIdle

\* Date.now() at the last booking issued (0 at the start of the run)
LastClock == IF sessions = <<>> THEN 0 ELSE sessions[Len(sessions)].createdAt

\* part_000:389-461 with the identifiers it issues and the metadata it
\* sends; now is Date.now(), rnd what the random source yields to nano().
CreateBooking_part000(email, stripeOk, now, date, rnd) ==
  /\ rev = RevPart000 /\ Len(sessions) < MaxSessions
  /\ now >= LastClock
  /\ LET totalMXN == computeTotalMXN_part000(booking).total
         bookingId == BookingId(now)
         confDate == IF date # NoDate THEN NewDate(date) ELSE Today
         confirmationCode == buildConfirmationCode(confDate, nano(rnd))
     IN IF booking.adults + booking.children <= 0 THEN resp' = Reply(400, "Sin pasajeros") /\ UNCHANGED sessions
        ELSE IF ~(totalMXN > 0) THEN resp' = Reply(400, "Total invalido") /\ UNCHANGED sessions
        ELSE IF ~stripeOk THEN resp' = Reply(400, "No se pudo crear") /\ UNCHANGED sessions
        ELSE /\ resp' = [status |-> 200, body |-> "session", bookingId |-> bookingId]
             /\ sessions' = Append(sessions,
                   [req |-> Request(0, email), amount |-> unit_amount(totalMXN), createdAt |-> now,
                    metadata |-> [bookingId |-> bookingId, confirmation_code |-> confirmationCode,
                                  customer_email |-> email, date |-> date],
                    payment_intent_metadata |-> [bookingId |-> bookingId,
                                                 confirmation_code |-> confirmationCode, date |-> date],
                    client_reference_id |-> bookingId])
  /\ UNCHANGED <<routeVars, rev, booking, calc, hookVars>>

\* The customer pays session i; the provider starts delivering its
\* checkout.session.completed event, whose object is the session with the
\* metadata it was created with and the e-mail Checkout collected.
CheckoutCompleted(i) ==
  /\ rev = RevPart000
  /\ event = NoEvent
  /\ i \in 1..Len(sessions)
  /\ event' = [type |-> "checkout.session.completed", email |-> TRUE, meta |-> TRUE, id |-> i,
               code |-> sessions[i].metadata.confirmation_code]
  /\ UNCHANGED <<routeVars, rev, booking, calc, createVars, env, slots, mails, delivered, overlap, acked>>

NextBooking ==
  \/ \E email \in BookingEmails, stripeOk \in BOOLEAN, now \in {LastClock, LastClock + 1},
        date \in DateVals, rnd \in RandomDraws :
        CreateBooking_part000(email, stripeOk, now, date, rnd)
  \/ \E i \in 1..MaxSessions : CheckoutCompleted(i)
  \/ \E b \in BOOLEAN :
        \/ StripeWebhook_part000(1, b)
        \/ CustomerSendSettles(1, b)
        \/ StaffSendSettles(1, b)

SpecBooking == InitBooking /\ [][NextBooking]_vars

(* ---------------- part_002: checkout with the OXXO fallback ---------------- *)
\* A settled stripe.checkout.sessions.create: NoError when it resolved,
\* else the error's raw.code and whether its message names both
\* payment_method_types and oxxo.
NoError == [code |-> "none", namesOxxo |-> FALSE]

StripeErrors ==
  {[code |-> "payment_method_type_unavailable", namesOxxo |-> FALSE],
   [code |-> "parameter_invalid_empty", namesOxxo |-> TRUE],
   [code |-> "api_connection_error", namesOxxo |-> FALSE]}

\* every failure taken for the OXXO one
oxxoUnavailable_always(e) == TRUE

\* part_002:251-254
oxxoUnavailable(e) == e.code = "payment_method_type_unavailable" \/ e.namesOxxo

\* part_002:139-141
pmTypesBase == IF checkout.enableOxxo THEN <<"card", "oxxo">> ELSE <<"card">>

Includes(list, x) == \E i \in 1..Len(list) : list[i] = x

CheckoutCarts ==
  {[adults |-> 1, children |-> 0, addons |-> <<>>],
   [adults |-> 0, children |-> 0, addons |-> <<>>],
   [adults |-> 0, children |-> 0, addons |-> <<[name |-> Photoshoot, price |-> 1200]>>]}

\* res.status(status).json(...): one more response written for the request
Responded(status, body) ==
  /\ checkout' = [checkout EXCEPT !.pc = "done", !.responses = Append(@, status)]
  /\ resp' = Reply(status, body)

\* part_002:118-247: validation, then the first createSession is awaited.
CreateCheckoutSession_part002(email) ==
  /\ rev = RevPart002
  /\ checkout.pc \in {"idle", "done"}
  /\ Len(sessions) < MaxSessions
  /\ LET amountMXN == computeTotalMXN_part002(booking).total
         pax == booking.adults + booking.children
         fresh == [checkout EXCEPT !.email = email, !.calls = <<>>, !.errors = <<>>, !.responses = <<>>]
     IN IF amountMXN <= 0
        THEN checkout' = [fresh EXCEPT !.pc = "done", !.responses = <<400>>] /\ resp' = Reply(400, "Total invalido")
        ELSE IF pax <= 0
        THEN checkout' = [fresh EXCEPT !.pc = "done", !.responses = <<400>>] /\ resp' = Reply(400, "Sin pasajeros")
        ELSE IF email # <<>> /\ ~EmailRegex(email)
        THEN checkout' = [fresh EXCEPT !.pc = "done", !.responses = <<400>>] /\ resp' = Reply(400, "Email invalido")
        ELSE checkout' = [fresh EXCEPT !.pc = "first", !.calls = <<pmTypesBase>>] /\ UNCHANGED resp
  /\ UNCHANGED <<rev, booking, calc, sessions, hookVars, lookup, cors>>

\* part_002:265
SessionCreated ==
  /\ Responded(200, "session")
  /\ sessions' = Created(0, checkout.email, unit_amount(computeTotalMXN_part002(booking).total))

\* the else branch of the inner catch without its return: the handler goes
\* on to part_002:265, where session.id throws and the outer catch answers
FirstAttemptSettles_noReturn(e) ==
  /\ rev = RevPart002
  /\ checkout.pc = "first"
  /\ IF e = NoError THEN SessionCreated
     ELSE IF oxxoUnavailable(e) /\ Includes(pmTypesBase, "oxxo")
     THEN /\ checkout' = [checkout EXCEPT !.pc = "retry", !.errors = Append(@, e),
                                           !.calls = Append(@, <<"card">>)]
          /\ UNCHANGED <<sessions, resp>>
     ELSE /\ checkout' = [checkout EXCEPT !.pc = "done", !.errors = Append(@, e),
                                           !.responses = @ \o <<500, 500>>]
          /\ resp' = Reply(500, "No se pudo crear")
          /\ UNCHANGED sessions
  /\ UNCHANGED <<rev, booking, calc, hookVars, lookup, cors>>

\* part_002:245-265: the first createSession settles.
FirstAttemptSettles(e) ==
  /\ rev = RevPart002
  /\ checkout.pc = "first"
  /\ IF e = NoError THEN SessionCreated
     ELSE IF oxxoUnavailable(e) /\ Includes(pmTypesBase, "oxxo")
     THEN /\ checkout' = [checkout EXCEPT !.pc = "retry", !.errors = Append(@, e),
                                           !.calls = Append(@, <<"card">>)]
          /\ UNCHANGED <<sessions, resp>>
     ELSE /\ checkout' = [checkout EXCEPT !.pc = "done", !.errors = Append(@, e),
                                           !.responses = Append(@, 500)]
          /\ resp' = Reply(500, "No se pudo crear")
          /\ UNCHANGED sessions
  /\ UNCHANGED <<rev, booking, calc, hookVars, lookup, cors>>

\* part_002:258-269: the card-only createSession settles; its rejection
\* leaves the inner catch and is answered by the outer one.
RetrySettles(e) ==
  /\ rev = RevPart002
  /\ checkout.pc = "retry"
  /\ IF e = NoError THEN SessionCreated
     ELSE /\ checkout' = [checkout EXCEPT !.pc = "done", !.errors = Append(@, e),
                                           !.responses = Append(@, 500)]
          /\ resp' = Reply(500, "No se pudo crear")
          /\ UNCHANGED sessions
  /\ UNCHANGED <<rev, booking, calc, hookVars, lookup, cors>>

\* the webhook handlers of their revisions, or the checkout of part_002
InitHandlers ==
  \/ InitWebhook
  \/ /\ rev = RevPart002
     /\ booking \in CheckoutCarts
     /\ calc = NoCalc
     /\ sessions = <<>>
     /\ resp = NoResp
     /\ HookIdle
     /\ checkout \in {[NoCheckout EXCEPT !.enableOxxo = b] : b \in BOOLEAN}
     /\ lookup = NoLookup
     /\ cors = NoCors

NextHandlers ==
  \/ NextWebhook
  \/ \E email \in EmailVals : CreateCheckoutSession_part002(email)
  \/ \E e \in StripeErrors \cup {NoError} : FirstAttemptSettles(e)
  \/ \E e \in StripeErrors \cup {NoError} : RetrySettles(e)

SpecHandlers == InitHandlers /\ [][NextHandlers]_vars

(* ---------------- CORS origin check ---------------- *)
\* An origin string: scheme, the labels of its host (a port stays in the
\* last label), and whether the text is the origin itself or the markdown
\* link '[origin](origin)' found in some of the lists.
Origin(scheme, host) == [scheme |-> scheme, host |-> host, link |-> FALSE]

Link(o) == [o EXCEPT !.link = TRUE]

\* a request without an Origin header
NoOrigin == [scheme |-> "none", host |-> <<>>, link |-> FALSE]

Wefly == Origin("https", <<"wefly", "com", "mx">>)

WwwWefly == Origin("https", <<"www", "wefly", "com", "mx">>)

Vuelos == Origin("https", <<"vuelosenglobo", "mx">>)

WwwVuelos == Origin("https", <<"www", "vuelosenglobo", "mx">>)

LocalOrigins ==
  {Origin("http", <<"localhost:3000">>), Origin("http", <<"127", "0", "0", "1:3000">>),
   Origin("http", <<"localhost:5500">>), Origin("http", <<"127", "0", "0", "1:5500">>)}

ProductionOrigins == {Wefly, WwwWefly}

RequestOrigins ==
  ProductionOrigins \cup
  {NoOrigin, Origin("http", <<"localhost:3000">>),
   Origin("https", <<"preview", "usercontent", "goog">>),
   Origin("https", <<"example", "com">>)}

allowedOrigins ==
  CASE rev = RevPart001 -> {Link(Wefly)}
    [] rev = RevPart003 -> {Link(Wefly), Link(WwwWefly)}
    [] rev = RevPart004 -> {Link(Wefly), Link(WwwWefly), Origin("http", <<"localhost:3000">>)}
    [] rev = RevPart000 -> ProductionOrigins \cup {Vuelos, WwwVuelos} \cup LocalOrigins
    [] OTHER -> ProductionOrigins \cup LocalOrigins

\* origin.endsWith('.usercontent.goog')
endsWithUsercontentGoog(o) ==
  /\ Len(o.host) >= 3
  /\ o.host[Len(o.host) - 1] = "usercontent"
  /\ o.host[Len(o.host)] = "goog"

\* What the cors middleware does with the request: "allow" sets
\* Access-Control-Allow-Origin and goes on, "reject" passes an Error to
\* next() so that no route handler runs, "omit" goes on without the header
\* (the array form of part_003 never rejects).
originVerdict(o) ==
  CASE rev \in {RevPart001, RevPart004} ->
         IF o = NoOrigin \/ o \in allowedOrigins \/ endsWithUsercontentGoog(o)
         THEN "allow" ELSE "reject"
    [] rev = RevPart003 -> IF o \in allowedOrigins THEN "allow" ELSE "omit"
    [] OTHER -> IF o = NoOrigin \/ o \in allowedOrigins THEN "allow" ELSE "reject"

CorsCheck(o) ==
  /\ cors' = [origin |-> o, allowed |-> originVerdict(o) = "allow",
               rejected |-> originVerdict(o) = "reject"]
  /\ UNCHANGED <<rev, booking, calc, createVars, hookVars, checkout, lookup>>

(* ---------------- part_003: the route registered twice ---------------- *)
\* part_003:24-78: the total alone is validated; contact.email is read
\* while the session parameters are built, which throws without a contact.
FirstRegistration(total, contact, stripeOk) ==
  IF total <= 0 THEN [status |-> 400, body |-> "Total invalido", session |-> FALSE, next |-> FALSE]
  ELSE IF ~contact \/ ~stripeOk
  THEN [status |-> 500, body |-> "No se pudo crear", session |-> FALSE, next |-> FALSE]
  ELSE [status |-> 200, body |-> "session", session |-> TRUE, next |-> FALSE]

\* part_003:82-149: the same with the passenger validation
SecondRegistration(total, contact, stripeOk) ==
  IF total <= 0 THEN [status |-> 400, body |-> "Total invalido", session |-> FALSE, next |-> FALSE]
  ELSE IF booking.adults + booking.children <= 0
  THEN [status |-> 400, body |-> "Sin pasajeros", session |-> FALSE, next |-> FALSE]
  ELSE IF ~contact \/ ~stripeOk
  THEN [status |-> 500, body |-> "No se pudo crear", session |-> FALSE, next |-> FALSE]
  ELSE [status |-> 200, body |-> "session", session |-> TRUE, next |-> FALSE]

\* Express runs the handlers of a path in registration order; a later one
\* runs only when the one before it calls next().
CreateCheckoutSession_part003(total, contact, email, stripeOk) ==
  /\ rev = RevPart003 /\ Len(sessions) < MaxSessions
  /\ LET first == FirstRegistration(total, contact, stripeOk)
         r == IF first.next THEN SecondRegistration(total, contact, stripeOk) ELSE first
     IN /\ resp' = Reply(r.status, r.body)
        /\ sessions' = IF r.session THEN Created(total, email, unit_amount(total)) ELSE sessions
  /\ UNCHANGED <<rev, booking, calc, hookVars, routeVars>>

(* ---------------- part_000: lookups ---------------- *)
\* how stripe.checkout.sessions.retrieve settles: resolved with the session,
\* rejected because there is no such session, rejected for another reason
RetrieveOutcomes == {"found", "missing", "failure"}

\* how stripe.paymentIntents.search settles: one hit, no hit, rejected
SearchOutcomes == {"found", "none", "failure"}

PaymentIntentStatuses ==
  {"succeeded", "requires_capture", "requires_payment_method", "processing", "canceled"}

\* part_000:464-492
BookingBySession(outcome) ==
  /\ rev = RevPart000
  /\ lookup' = [endpoint |-> "by-session", provider |-> outcome, piStatus |-> "none",
                 status |-> IF outcome = "found" THEN 200 ELSE 404, paid |-> FALSE]
  /\ UNCHANGED <<rev, booking, calc, createVars, hookVars, checkout, cors>>

\* part_000:496-565: a rejected search is only logged, piFound stays null
Verify(outcome, piStatus) ==
  /\ rev = RevPart000
  /\ LET piFound == outcome = "found"
         paid == piStatus = "succeeded" \/ piStatus = "requires_capture"
     IN lookup' = IF ~piFound
                  THEN [endpoint |-> "verify", provider |-> outcome, piStatus |-> "none",
                        status |-> 404, paid |-> FALSE]
                  ELSE [endpoint |-> "verify", provider |-> outcome, piStatus |-> piStatus,
                        status |-> 200, paid |-> paid]
  /\ UNCHANGED <<rev, booking, calc, createVars, hookVars, checkout, cors>>

RouteRevs == {RevServerA, RevPart000, RevPart001, RevPart002, RevPart003, RevPart004, RevPart007}

InitRoutes ==
  /\ rev \in RouteRevs
  /\ booking \in CheckoutCarts
  /\ calc = NoCalc
  /\ sessions = <<>>
  /\ resp = NoResp
  /\ HookIdle
  /\ RouteIdle

NextRoutes ==
  \/ \E o \in RequestOrigins : CorsCheck(o)
  \/ \E total \in ClientTotals, contact \in BOOLEAN, email \in EmailVals, stripeOk \in BOOLEAN :
        CreateCheckoutSession_part003(total, contact, email, stripeOk)
  \/ \E outcome \in RetrieveOutcomes : BookingBySession(outcome)
  \/ \E outcome \in SearchOutcomes, piStatus \in PaymentIntentStatuses : Verify(outcome, piStatus)

SpecRoutes == InitRoutes /\ [][NextRoutes]_vars

(* ======================= properties ======================= *)
Pax == booking.adults + booking.children

SameCart(r1, r2) ==
  r1.adults = r2.adults /\ r1.children = r2.children /\ r1.addons = r2.addons

\* C1: two creation requests with the same passenger counts and the same
\* add-ons, whatever their client-supplied `total`, are charged the same
\* amount.  Stated as the claim has it; the revision at server.js:246
\* charges the client's total.
C1_AmountIgnoresClientTotal ==
  \A i \in 1..Len(sessions), j \in 1..Len(sessions) :
     SameCart(sessions[i].req, sessions[j].req) => sessions[i].amount = sessions[j].amount

ComputeOf(r, b) ==
  CASE r = RevServerA -> computeTotalMXN_serverA(b)
    [] r = RevPart000 -> computeTotalMXN_part000(b)
    [] r = RevPart002 -> computeTotalMXN_part002(b)
    [] r = RevPart007 -> computeServerTotalMXN(b)

Repriced(b, ps) ==
  [b EXCEPT !.addons = [i \in 1..Len(b.addons) |-> [name |-> b.addons[i].name, price |-> ps[i]]]]

KnownAddon(n) == n \in DOMAIN PRICES_ADDONS

\* C2: the add-on contribution depends on the add-on names and the
\* passenger count only (changing the client's `price` fields does not
\* change it), and add-ons outside the server price table contribute 0.
\* Stated as the claim has it; computeTotalMXN charges a.price.
C2_AddonPriceFromServerTable ==
  (calc.done /\ ~calc.threw) =>
     /\ \A ps \in [1..Len(booking.addons) -> ClientPrices] :
           ComputeOf(rev, Repriced(booking, ps)).addonsTotal = calc.addonsTotal
     /\ (\A i \in 1..Len(booking.addons) : ~KnownAddon(booking.addons[i].name)) => calc.addonsTotal = 0

\* C7: the base amount is adults * 2500 + children * 2200 wherever the
\* pricing function computes one, and it is the whole total of a booking
\* without add-ons.
C7_BaseAmount ==
  (calc.done /\ ~(calc.threw /\ Pax <= 0)) =>
     /\ calc.base = booking.adults * 2500 + booking.children * 2200
     /\ (booking.addons = <<>> /\ ~calc.threw /\ calc.base > 0) =>
           calc.total = booking.adults * 2500 + booking.children * 2200

C7_Witness ==
  /\ calc.done /\ ~calc.threw /\ rev = RevPart007
  /\ booking.adults = 2 /\ booking.children = 1 /\ booking.addons = <<>>
  /\ calc.total = 7200

TableCharge(a, pax) ==
  IF ~KnownAddon(a.name) THEN 0
  ELSE IF a.name = Desayuno THEN PRICES_ADDONS[a.name] * pax
  ELSE PRICES_ADDONS[a.name]

\* C8: the add-on contribution is the sum over the entries of the addons
\* sequence that are in the server price table: the table price for a FLAT
\* add-on, the table price times the passenger count for Desayuno en La
\* Cueva.  Stated as the claim has it.
C8_AddonSumOverSequence ==
  (calc.done /\ ~calc.threw) =>
     calc.addonsTotal = SumSeq([i \in 1..Len(booking.addons) |-> TableCharge(booking.addons[i], Pax)])

\* C9: a payment session or intent exists only for a booking with
\* non-negative passenger counts and at least one passenger.  Stated as the
\* claim has it; the handlers check the sum only.
C9_SessionOnlyForValidCounts ==
  sessions # <<>> => (booking.adults >= 0 /\ booking.children >= 0 /\ Pax >= 1)

RawTotal(r, b) ==
  IF r \in {RevServerA, RevPart000, RevPart007}
  THEN ComputeOf(r, b).base + ComputeOf(r, b).addonsTotal
  ELSE 1

Rejected == resp.status \in {400, 500} /\ resp.body \notin {"session", "clientSecret"}

\* C10: when adults + children <= 0, or when the total the server computes
\* is <= 0, every creation request is rejected and no amount reaches the
\* payment provider.
C10_NoAmountForEmptyOrNonPositive ==
  (Pax <= 0 \/ RawTotal(rev, booking) <= 0) =>
     /\ sessions = <<>>
     /\ resp # NoResp => Rejected

C10_Witness ==
  /\ rev = RevPart007 /\ Pax > 0 /\ RawTotal(rev, booking) <= 0
  /\ resp.status = 500 /\ sessions = <<>>

Quiet == \A h \in Handlers : ~Awaiting(h)

MailReady == env.secret /\ env.apiKey /\ env.template /\ event.email

\* C3: two deliveries of the same payment-succeeded event handled
\* concurrently, both acknowledged, leave exactly one customer e-mail and
\* one staff e-mail.  Stated as the claim has it; the handler keeps no
\* record of what it has processed.
C3_ConcurrentDeliveriesNotifyOnce ==
  (rev = RevPart000 /\ event.type = "checkout.session.completed" /\ MailReady
     /\ overlap /\ Quiet /\ delivered = 2 /\ acked = 2)
  => (mails.customer = 1 /\ mails.staff = 1)

\* C4: the same event delivered twice, one after the other: the first
\* delivery notifies, the second is acknowledged and sends nothing more.
\* Stated as the claim has it.
C4_SecondDeliveryIsNoOp ==
  (rev = RevPart000 /\ event.type = "checkout.session.completed" /\ MailReady
     /\ ~overlap /\ Quiet /\ delivered = 2 /\ acked = 2)
  => (mails.customer = 1 /\ mails.staff = 1 /\ \E h \in Handlers : slots[h].pc = "done" /\ slots[h].sent = 0)

\* C5: a delivery that passed signature verification is answered 2xx
\* whatever happens while it is processed.  Stated as the claim has it; in
\* part_000 a rejected e-mail send is answered 500.
C5_VerifiedAlwaysAcked ==
  \A h \in Handlers :
     (slots[h].pc = "done" /\ slots[h].reached) => slots[h].status \in 200..299

\* C6 as stated: a request whose signature does not verify is answered 4xx
\* and is never processed.
C6_BadSignatureIs4xx ==
  \A h \in Handlers :
     (slots[h].pc = "done" /\ ~slots[h].sig) =>
        (slots[h].status \in 400..499 /\ ~slots[h].reached /\ slots[h].sent = 0)

\* C6 amended: a request whose signature does not verify is never
\* processed (it sends nothing), and it is answered 4xx whenever a webhook
\* secret is configured.
C6_BadSignatureNeverProcessed ==
  \A h \in Handlers :
     ~slots[h].sig =>
        /\ ~slots[h].reached /\ slots[h].sent = 0 /\ ~Awaiting(h)
        /\ (slots[h].pc = "done" /\ env.secret) => slots[h].status \in 400..499

C6_Witness ==
  \E h \in Handlers :
     /\ slots[h].pc = "done" /\ ~slots[h].sig /\ slots[h].status = 400
     /\ env.secret /\ rev = RevPart000 /\ MailReady
     /\ event.type = "checkout.session.completed"

ValidCounts == booking.adults >= 0 /\ booking.children >= 0 /\ Pax >= 1

\* Video con Dron is an alias of Video con Drone.
AddonKey(n) == IF n = VideoDron THEN VideoDrone ELSE n

\* The add-ons of the booking are a set of known add-ons: every name is in
\* the server price table and no add-on occurs twice.
KnownAddonSet ==
  /\ \A i \in 1..Len(booking.addons) : KnownAddon(booking.addons[i].name)
  /\ \A i \in 1..Len(booking.addons), j \in 1..Len(booking.addons) :
        i # j => AddonKey(booking.addons[i].name) # AddonKey(booking.addons[j].name)

ServerPriced == {RevServerA, RevPart000, RevPart007}

\* C12: in the revisions that compute the total on the server, the amount
\* of every payment session or intent is 100 times the total computed for
\* its booking; for 2 adults, 1 child, Photoshoot at 1200 and Desayuno en
\* La Cueva at 600 the total is 10200 and the amount 1020000.
C12_AmountIsTotalInCentavos ==
  rev \in ServerPriced =>
     \A i \in 1..Len(sessions) :
        /\ sessions[i].amount = 100 * ComputeOf(rev, booking).total
        /\ booking = ExampleCart => sessions[i].amount = 1020000

C12_Witness ==
  /\ rev = RevPart007 /\ booking = ExampleCart
  /\ ComputeOf(rev, booking).total = 10200
  /\ Len(sessions) = 1 /\ sessions[1].amount = 1020000

Letters ==
  {"A", "B", "C", "D", "E", "F", "G", "H", "I", "J", "K", "L", "M",
   "N", "O", "P", "Q", "R", "S", "T", "U", "V", "W", "X", "Y", "Z"}

Digits == {DigitChars[k] : k \in 1..10}

Unambiguous == (Letters \cup Digits) \ {"0", "O", "1", "I"}

\* WFT-YYYYMMDD-XXXXXX
WellFormedCode(c) ==
  /\ Len(c) = 19
  /\ SubSeq(c, 1, 4) = <<"W", "F", "T", "-">>
  /\ \A k \in 5..12 : c[k] \in Digits
  /\ c[13] = "-"
  /\ \A k \in 14..19 : c[k] \in Unambiguous

\* C13: the confirmation code of every booking issued has the form
\* WFT-YYYYMMDD-XXXXXX, with eight digits for the date and six characters
\* of the unambiguous alphabet, whatever `date` the request carried.
\* Stated as the claim has it; the endpoint does not check `date`.
C13_CodeHasFixedForm ==
  \A i \in 1..Len(sessions) : WellFormedCode(sessions[i].metadata.confirmation_code)

Alphabet == {AlphabetString[k] : k \in 1..Len(AlphabetString)}

\* C14: the suffix characters come from an alphabet of exactly 32 symbols,
\* so that there are 32^6 suffixes.  Stated as the claim has it.
C14_AlphabetHas32Symbols ==
  /\ \A i \in 1..Len(sessions) :
        LET code == sessions[i].metadata.confirmation_code
        IN \A k \in 1..SuffixLen : code[Len(code) - SuffixLen + k] \in Alphabet
  /\ Cardinality(Alphabet) = 32
  /\ Cardinality(Alphabet) ^ SuffixLen = 32 ^ 6

\* C15: no two bookings issued carry the same confirmation code.  Stated
\* as the claim has it; the handler compares a new code with nothing.
C15_CodesAreUnique ==
  \A i \in 1..Len(sessions), j \in 1..Len(sessions) :
     i # j => sessions[i].metadata.confirmation_code # sessions[j].metadata.confirmation_code

\* C16: no two bookings issued carry the same bookingId, requests handled
\* within one millisecond included.  Stated as the claim has it.
C16_BookingIdsAreUnique ==
  \A i \in 1..Len(sessions), j \in 1..Len(sessions) :
     i # j => sessions[i].metadata.bookingId # sessions[j].metadata.bookingId

\* C17: every session created carries the bookingId and the confirmation
\* code issued for it in its metadata (and the same pair on its payment
\* intent, the same id as client reference and in the response), and every
\* notification sent for a completed session carries the confirmation code
\* that session was created with.
C17_NotificationCarriesIssuedCode ==
  /\ \A i \in 1..Len(sessions) :
        /\ sessions[i].metadata.bookingId = BookingId(sessions[i].createdAt)
        /\ sessions[i].metadata.confirmation_code # NoCode
        /\ sessions[i].payment_intent_metadata.bookingId = sessions[i].metadata.bookingId
        /\ sessions[i].payment_intent_metadata.confirmation_code = sessions[i].metadata.confirmation_code
        /\ sessions[i].client_reference_id = sessions[i].metadata.bookingId
  /\ resp.status = 200 =>
        (sessions # <<>> /\ resp.bookingId = sessions[Len(sessions)].metadata.bookingId)
  /\ \A c \in mails.codes :
        /\ event.id \in 1..Len(sessions)
        /\ c = sessions[event.id].metadata.confirmation_code

C17_Witness ==
  /\ Len(sessions) = 2 /\ event.id = 2
  /\ sessions[1].metadata.confirmation_code # sessions[2].metadata.confirmation_code
  /\ mails.customer = 1 /\ mails.staff = 1
  /\ mails.codes = {sessions[2].metadata.confirmation_code}

Completed == rev = RevPart000 /\ event.type = "checkout.session.completed"

\* C18: a verified payment-succeeded event of a booking, once it has been
\* acknowledged, has produced exactly one customer e-mail and exactly one
\* staff e-mail.  Stated as the claim has it, for a deployment with the
\* mail settings in place and a session that carries the customer e-mail.
C18_OneCustomerAndOneStaffMail ==
  (Completed /\ event.meta /\ MailReady /\ Quiet /\ acked = 1)
  => (mails.customer = 1 /\ mails.staff = 1)

\* C19: a verified payment-succeeded event whose session carries no
\* bookingId or confirmation code of a booking is answered 200 and no
\* e-mail is sent for it.  Stated as the claim has it; the handler looks
\* nothing up.
C19_UnmatchedEventSendsNothing ==
  (Completed /\ ~event.meta) =>
     /\ mails.customer = 0 /\ mails.staff = 0
     /\ \A h \in Handlers : (slots[h].pc = "done" /\ slots[h].reached) => slots[h].status = 200

\* C20: a creation request that fails validation is answered 4xx and
\* reaches no provider call: with no passengers or a non-positive computed
\* total the response is 4xx and no session exists; no session is created
\* for a non-positive client total where the client total is the amount,
\* nor for a non-empty e-mail that does not match the pattern where the
\* revision checks the e-mail.  Stated as the claim has it.
C20_ValidationFailureIs4xx ==
  /\ (resp # NoResp /\ (Pax <= 0 \/ RawTotal(rev, booking) <= 0)) =>
        (resp.status \in 400..499 /\ sessions = <<>>)
  /\ rev = RevServerB => \A i \in 1..Len(sessions) : sessions[i].req.total > 0
  /\ rev # RevPart000 =>
        \A i \in 1..Len(sessions) :
           sessions[i].req.email = <<>> \/ EmailRegex(sessions[i].req.email)

\* the response written by the catch clause around the provider call
ProviderCallFailed == resp.body \in {"No se pudo crear", "No se pudo iniciar"}

\* C21: when the provider's session or intent creation fails, the client
\* gets a 5xx response and no success payload.  Stated as the claim has
\* it; part_000 answers 400 from its catch clause.
C21_ProviderFailureIs5xx ==
  ProviderCallFailed => (resp.status \in 500..599 /\ resp.body \notin {"session", "clientSecret"})

\* the event types each webhook handler has a branch for
Recognised ==
  CASE rev = RevPart000 -> {"checkout.session.completed"}
    [] rev = RevPart004 -> {"payment_intent.succeeded", "payment_intent.payment_failed",
                            "checkout.session.completed"}
    [] rev = RevPart007 -> {"payment_intent.succeeded", "payment_intent.payment_failed",
                            "charge.succeeded"}
    [] rev = RevServerA -> {"checkout.session.completed", "checkout.session.async_payment_succeeded",
                            "checkout.session.async_payment_failed"}
    [] OTHER -> {}

\* C22: a verified event of a type the handler has no branch for is
\* answered 200 and sends nothing, and e-mails are sent (or being sent) for
\* the checkout.session.completed type only.
C22_UnrecognisedEventIsNoOp ==
  /\ event.type \notin Recognised =>
        /\ mails.customer = 0 /\ mails.staff = 0
        /\ \A h \in Handlers :
              /\ ~Awaiting(h)
              /\ (slots[h].pc = "done" /\ slots[h].reached) =>
                    (slots[h].status = 200 /\ slots[h].sent = 0)
  /\ (mails.customer > 0 \/ mails.staff > 0 \/ \E h \in Handlers : Awaiting(h)) =>
        event.type = "checkout.session.completed"

C22_Witness ==
  /\ rev = RevPart000 /\ MailReady /\ event.type = "customer.created"
  /\ mails.customer = 0 /\ mails.staff = 0
  /\ \E h \in Handlers :
        slots[h].pc = "done" /\ slots[h].sig /\ slots[h].reached /\ slots[h].status = 200

\* what stands between "WFT-" and "-XXXXXX"
DatePart(code) == SubSeq(code, 5, Len(code) - SuffixLen - 1)

\* the date part a code has when it is seeded by date d
DatePartOf(d) == DatePart(buildConfirmationCode(d, nano(<<1, 1, 1, 1, 1, 1>>)))

\* C26: the date part of the confirmation codes comes from one kind of
\* date for all bookings: always the day of creation, or always the flight
\* date of the request.  Stated as the claim has it; the handler takes the
\* flight date when the request has one and the day of creation otherwise.
C26_OneKindOfDateSeedsCodes ==
  \/ \A i \in 1..Len(sessions) :
        DatePart(sessions[i].metadata.confirmation_code) = DatePartOf(Today)
  \/ \A i \in 1..Len(sessions) :
        /\ sessions[i].metadata.date # NoDate
        /\ DatePart(sessions[i].metadata.confirmation_code) = DatePartOf(NewDate(sessions[i].metadata.date))


\* C23: one request makes at most one session-creation call to the payment
\* provider, and a failed call is answered as a failure, never tried again.
C23_AtMostOneCreationCall ==
  /\ Len(checkout.calls) <= 1
  /\ (checkout.pc = "done" /\ Len(checkout.errors) >= 1) => checkout.responses = <<500>>

\* the first call was refused for OXXO and OXXO had been asked for
OxxoRefused ==
  /\ Len(checkout.errors) >= 1
  /\ checkout.errors[1].code = "payment_method_type_unavailable" \/ checkout.errors[1].namesOxxo
  /\ checkout.enableOxxo
  /\ checkout.calls[1] = <<"card", "oxxo">>

\* C30: a second creation call is made only after the first was refused for
\* OXXO with OXXO requested; it asks for card alone and happens at most once;
\* when it fails too, or when the first call failed for any other reason,
\* the request is answered 500.
C30_CardOnlyFallbackOnce ==
  /\ Len(checkout.calls) <= 2
  /\ Len(checkout.calls) = 2 => OxxoRefused /\ checkout.calls[2] = <<"card">>
  /\ (checkout.pc = "done" /\ Len(checkout.errors) = 2) => checkout.responses = <<500>>
  /\ (checkout.pc = "done" /\ Len(checkout.errors) = 1 /\ ~OxxoRefused) =>
        Len(checkout.calls) = 1 /\ checkout.responses = <<500>>

C30_Witness ==
  /\ checkout.pc = "done"
  /\ Len(checkout.calls) = 2
  /\ Len(checkout.errors) = 1
  /\ checkout.responses = <<200>>

\* C29: a request to the creation endpoint or to the webhook endpoint is
\* answered exactly once on every path: nothing is written while the
\* handler still awaits, and one response has been written once it is done.
C29_ExactlyOneResponse ==
  /\ checkout.pc = "done" => Len(checkout.responses) = 1
  /\ checkout.pc \in {"first", "retry"} => Len(checkout.responses) = 0
  /\ \A h \in Handlers :
        /\ slots[h].pc = "done" => slots[h].status \in {200, 400, 500}
        /\ slots[h].pc \in {"customer", "staff"} => slots[h].status = 0

C29_Witness ==
  /\ checkout.pc = "done"
  /\ Len(checkout.errors) = 2
  /\ checkout.responses = <<500>>



\* C24: a lookup endpoint answers 404 exactly when no matching record
\* exists, and a failed provider call is answered with a 5xx status.
C24_NotFoundIffNoRecord ==
  lookup.endpoint # "none" =>
    /\ lookup.status = 404 <=> lookup.provider \in {"missing", "none"}
    /\ lookup.provider = "failure" => lookup.status >= 500

\* C25: /verify reports a booking as paid only when the provider reports
\* its payment as succeeded.
C25_PaidOnlyWhenSucceeded ==
  (lookup.endpoint = "verify" /\ lookup.paid) => lookup.piStatus = "succeeded"

\* C27: in part_003 a request without passengers is never answered with
\* success and no payment session is created for it.
C27_ZeroPassengersRejected ==
  (rev = RevPart003 /\ booking.adults + booking.children <= 0) =>
    /\ sessions = <<>>
    /\ resp.status # 200

\* C28: in every revision a request from a production origin passes the
\* CORS origin check and reaches the route handlers.
C28_ProductionOriginPasses ==
  cors.origin \in ProductionOrigins => cors.allowed /\ ~cors.rejected


====
